---- MODULE Spec2Model ----
(***************************************************************************)
(* Model of the data-access layer of snmed/bookshelf: the generic resource *)
(* pool of src-tauri/src/pool.rs (InnerPool, PoolManager, PoolItem), its   *)
(* SQLite creator of src-tauri/src/books.rs and the way the commands of    *)
(* src-tauri/src/commands.rs lease and give back a PoolItem.               *)
(*                                                                         *)
(* An item (a Box<T>) is a positive integer, the ordinal of the creator    *)
(* call that produced it.  The free list is the Vec behind the mutex; the  *)
(* critical sections of acquire, relase and available_items are one step   *)
(* each, everything outside the lock is a step of its own.                 *)
(***************************************************************************)
EXTENDS Integers, Sequences, FiniteSets, TLC

\* ------------------------------------------------------------------ bounds
MaxMinSize == 2      \* largest min_pool handed to PoolManager::new
NumThreads == 3      \* threads that use the pool concurrently
MaxItems == 4        \* creator calls explored per behaviour
TestThreads == 6     \* threads spawned by pool_test (the test spawns 15)
MaxPools == 3        \* BookPools built per behaviour
MaxHandles == 6      \* PoolItems of get_current_pool alive at the same time
MaxRows == 3         \* rows stored in the table a fetch reads
MaxTake == 2         \* largest take of a SearchConfig
MaxSkip == 2         \* largest skip_page of a SearchConfig
MaxSort == 2         \* most sort descriptors of a SearchConfig
MaxCalls == 2        \* use_where_clause / use_params calls on one QueryBuilder
MaxBooks == 1        \* books stored at the same time
MaxList == 2         \* longest authors or tags list of a Book
MaxCommands == 6     \* book commands running at the same time

\* --------------------------------------------------------------- constants
TestMinSize == 5     \* PoolManager::new(5, ..) of pool_test
TestLowIndex == 3    \* match arm 0..=3 of pool_test
TestItem == 1        \* Box::new("Just a test".to_owned()): every item is this value
SqlitePoolSize == 5  \* BookPool::new(5, SqliteCreator { .. }) of new_sqlite_pool

None == 0            \* Option::None of PoolItem.0 / no observation yet
NoObs == -1
NoThread == 0        \* the free-list mutex is unlocked
NoName == "<none>"   \* Option::None of BookManager.current

VARIABLES
    phase,        \* progress of PoolManager::new: "new", "ready", "new_panicked"
    min_size,     \* InnerPool.1
    conns,        \* the local Vec of PoolManager::new
    free,         \* InnerPool.0, the Vec behind the mutex
    created,      \* number of items the creator has produced
    backend_ok,   \* whether SqliteStore::new(path) succeeds right now
    pc,           \* position of every thread
    item,         \* PoolItem.0 of the handle of every thread
    released,     \* calls of relase made for the current handle of a thread
    obs,          \* what available_items() returned to a thread of pool_test
    discarded,    \* items dropped by an over-capacity relase
    dropped_any,  \* whether some PoolItem has been dropped so far
    peak,         \* most PoolItems alive at the same time so far
    lock,         \* thread that holds the guard of the free-list mutex, or NoThread
    poisoned,     \* whether the free-list mutex is poisoned
    book_db_pools, \* BookManager.book_db_pools: registered name -> pool
    current,      \* BookManager.current: a name, or NoName for None
    pool_free,    \* free list of every BookPool ever built, by pool
    next_pool,    \* number of BookPools built so far
    handles,      \* PoolItems handed out by get_current_pool and still alive
    m_last,       \* the last BookManager call and what it returned
    events,       \* the BookManagerEvents the last manager command emitted
    db_rows,      \* rows of the table a fetch reads, in storage order
    q_last,       \* the last fetch: dataset, request, statements, StoreResult
    qb,           \* the QueryBuilder under construction and the calls made on it
    store,        \* the committed rows of books, authors and tags, by book id
    tx,           \* the rows as the open transaction sees them, if one is open
    call,         \* the store call in progress: operation, argument, position
    deleted,      \* ids removed by delete_book_by_id and not assigned since
    cmd,          \* the book command every command thread runs, and its position
    guard         \* thread that holds the guard of BookManagerState, or NoThread

poolvars == <<phase, min_size, conns, free, created, backend_ok, pc, item,
              released, obs, discarded, dropped_any, peak>>
lockvars == <<lock, poisoned>>
mgrvars == <<book_db_pools, current, pool_free, next_pool, handles, m_last,
            events>>
qvars == <<db_rows, q_last, qb>>
storevars == <<store, tx, call, deleted>>

cmdvars == <<cmd, guard>>

vars == <<poolvars, lockvars, mgrvars, qvars, storevars, cmdvars>>

Threads == 1..NumThreads
TestThreadIds == 0..(TestThreads - 1)

\* -------------------------------------------------------- pure operations

\* acquire that hands out the last item without removing it from the Vec
acquire_peek(v) ==
    IF Len(v) > 0
    THEN [ok |-> TRUE, item |-> v[Len(v)], v |-> v]
    ELSE [ok |-> FALSE, item |-> None, v |-> v]

\* acquire that reports an empty pool one item too early (v.len() > 1)
acquire_keeps_last(v) ==
    IF Len(v) > 1
    THEN [ok |-> TRUE, item |-> v[Len(v)], v |-> SubSeq(v, 1, Len(v) - 1)]
    ELSE [ok |-> FALSE, item |-> None, v |-> v]

\* InnerPool::acquire: v.pop().ok_or(false)
acquire(v) ==
    IF Len(v) > 0
    THEN [ok |-> TRUE, item |-> v[Len(v)], v |-> SubSeq(v, 1, Len(v) - 1)]
    ELSE [ok |-> FALSE, item |-> None, v |-> v]

\* relase with the comparison off by one (v.len() <= self.1)
relase_le(v, n, it) ==
    IF Len(v) <= n THEN Append(v, it) ELSE v

\* relase without the capacity check
relase_uncapped(v, n, it) == Append(v, it)

\* relase with the comparison inverted (v.len() > self.1)
relase_inverted(v, n, it) ==
    IF Len(v) > n THEN Append(v, it) ELSE v

\* relase that discards the item when one slot of the free list is open
relase_one_short(v, n, it) ==
    IF Len(v) + 1 < n THEN Append(v, it) ELSE v

\* InnerPool::relase: if v.len() < self.1 { v.push(item) }
relase(v, n, it) ==
    IF Len(v) < n THEN Append(v, it) ELSE v

\* PoolManager::available_items: lock().unwrap().len()
available_items(v) == Len(v)

\* the loop of PoolManager::new over the inclusive range 0..=min_pool
new_loop_inclusive(i, n) == i <= n

\* for _ in 0..min_pool: the loop of PoolManager::new runs while i < min_pool
new_loop_continues(i, n) == i < n

\* Creator::create_item.  SqliteCreator opens a connection of its own on every
\* call (the item is the ordinal of the call); TestCreator boxes the same string.
create_item(c, ordinal) ==
    IF c = "TestCreator" THEN TestItem ELSE ordinal

\* SqliteCreator::create_item: SqliteStore::new(..).expect(..) panics when the
\* store cannot be opened; TestCreator::create_item cannot fail
create_item_panics(c, ok) ==
    c = "SqliteCreator" /\ ~ok

\* the ways the store operation of a command ends: Ok, Err through `?`, panic
CommandPaths == {"returning", "failing", "unwinding"}

\* a handle that is given back on the normal return only
DropPathsReturnOnly == {"returning"}

\* the exit paths on which the PoolItem temporary goes out of scope and is dropped
DropPaths == {"returning", "failing", "unwinding"}

\* pc values in which a thread owns a live PoolItem
HoldingPcs == {"holding", "returning", "unwinding", "relase_locked"}

\* pc values of a thread whose PoolItem has gone out of scope
ExitedPcs == {"done", "done_err", "dead"}

Outstanding == {t \in DOMAIN pc : pc[t] \in HoldingPcs}
Creating == {t \in DOMAIN pc : pc[t] = "creating"}

Max(a, b) == IF a > b THEN a ELSE b

\* number of positions of the Vec s that hold the item i
Occurrences(s, i) == Cardinality({k \in 1..Len(s) : s[k] = i})

\* ------------------------------------------------------------------ Init

InitCommon(n, ids) ==
    /\ phase = "new"
    /\ min_size = n
    /\ conns = <<>>
    /\ free = <<>>
    /\ created = 0
    /\ backend_ok = TRUE
    /\ pc = [t \in ids |-> "idle"]
    /\ item = [t \in ids |-> None]
    /\ released = [t \in ids |-> 0]
    /\ obs = [t \in ids |-> NoObs]
    /\ discarded = {}
    /\ dropped_any = FALSE
    /\ peak = 0

\* the free-list mutex of a new pool: unlocked, not poisoned
LockInit ==
    /\ lock = NoThread
    /\ poisoned = FALSE

\* BookManager::default(): no pools, no current pool
MgrInit ==
    /\ book_db_pools = << >>
    /\ current = NoName
    /\ pool_free = << >>
    /\ next_pool = 0
    /\ handles = << >>
    /\ m_last = [op |-> "none", name |-> NoName, result |-> "none",
                 pool |-> None, tick |-> 0]
    /\ events = <<>>

\* Option<T>: None is the empty sequence, Some(x) the sequence of x alone
Nothing == <<>>
Some(x) == <<x>>
IsSome(o) == Len(o) = 1

\* StoreResult::default()
StoreResultDefault == [total |-> 0, skipped |-> 0, items |-> <<>>]

\* a statement text with neither ORDER BY nor LIMIT
NoSortLimit == [order_by |-> <<>>, limit |-> <<>>]

\* no statement was built
NoStatement == [placeholders |-> 0, bound |-> <<>>, sort_limit |-> NoSortLimit]

\* no fetch has run
NoFetch ==
    [op |-> "none", rows |-> <<>>,
     search |-> [text |-> "", take |-> Nothing, skip |-> Nothing,
                 sort |-> Nothing],
     ok |-> FALSE, result |-> StoreResultDefault,
     count |-> NoStatement, query |-> NoStatement]

\* no QueryBuilder exists
NoBuilder ==
    [stage |-> "none",
     b |-> [query |-> [base |-> "none", placeholders |-> 0], text |-> "",
            skipped |-> 0, filter |-> Nothing, search_params |-> Nothing,
            sort_limit |-> NoSortLimit, params |-> Nothing],
     config |-> [text |-> "", take |-> Nothing, skip |-> Nothing,
                 sort |-> Nothing],
     calls |-> <<>>, fetched |-> FALSE]

\* an empty table, no fetch has run, no builder exists
QueryInit ==
    /\ db_rows = <<>>
    /\ q_last = NoFetch
    /\ qb = NoBuilder

\* no store call is in progress
NoCall ==
    [op |-> "none", pc |-> "idle", result |-> "none",
     book |-> [id |-> 0, title |-> "", authors |-> <<>>, tags |-> Nothing]]

\* a database right after the migrations: no rows, no open transaction
StoreInit ==
    /\ store = << >>
    /\ tx = Nothing
    /\ call = NoCall
    /\ deleted = {}

\* no book command is running
NoCommand == [op |-> "none", pc |-> "idle"]

CmdInit ==
    /\ cmd = [t \in 1..MaxCommands |-> NoCommand]
    /\ guard = NoThread

Init ==
    /\ \E n \in 0..MaxMinSize : InitCommon(n, Threads)
    /\ LockInit /\ MgrInit /\ QueryInit /\ StoreInit /\ CmdInit

\* --------------------------------------------------------------- actions

\* PoolManager::new, one iteration of the loop: conns.push(creator.create_item())
NewPush(c) ==
    /\ phase = "new"
    /\ new_loop_continues(Len(conns), min_size)
    /\ IF create_item_panics(c, backend_ok)
       THEN /\ phase' = "new_panicked"
            /\ UNCHANGED <<conns, created>>
       ELSE /\ conns' = Append(conns, create_item(c, created + 1))
            /\ created' = created + 1
            /\ phase' = phase
    /\ UNCHANGED <<min_size, free, backend_ok, pc, item, released, obs,
                   discarded, dropped_any, peak>>
    /\ UNCHANGED <<lockvars, mgrvars, qvars, storevars, cmdvars>>

\* PoolManager::new, after the loop: the Vec becomes the free list
NewReturn ==
    /\ phase = "new"
    /\ ~new_loop_continues(Len(conns), min_size)
    /\ free' = conns
    /\ conns' = <<>>
    /\ phase' = "ready"
    /\ UNCHANGED <<min_size, created, backend_ok, pc, item, released, obs,
                   discarded, dropped_any, peak>>
    /\ UNCHANGED <<lockvars, mgrvars, qvars, storevars, cmdvars>>

\* the database file becomes unreadable: SqliteStore::new fails from now on
BackendFails ==
    /\ backend_ok
    /\ backend_ok' = FALSE
    /\ UNCHANGED <<phase, min_size, conns, free, created, pc, item, released,
                   obs, discarded, dropped_any, peak>>
    /\ UNCHANGED <<lockvars, mgrvars, qvars, storevars, cmdvars>>

\* PoolManager::get_pool_item up to the end of InnerPool::acquire: the Ok arm
\* builds the PoolItem, the Err arm goes on to the creator outside the lock.
\* cap bounds the creator calls of a behaviour.
GetPoolItem(t, cap) ==
    /\ phase = "ready"
    /\ pc[t] = "idle"
    /\ LET r == acquire(free) IN
         IF r.ok
         THEN /\ free' = r.v
              /\ item' = [item EXCEPT ![t] = r.item]
              /\ pc' = [pc EXCEPT ![t] = "holding"]
              /\ peak' = Max(peak, Cardinality(Outstanding) + 1)
         ELSE /\ created + Cardinality(Creating) < cap
              /\ free' = r.v
              /\ pc' = [pc EXCEPT ![t] = "creating"]
              /\ UNCHANGED <<item, peak>>
    /\ UNCHANGED <<phase, min_size, conns, created, backend_ok, released, obs,
                   discarded, dropped_any>>
    /\ UNCHANGED <<lockvars, mgrvars, qvars, storevars, cmdvars>>

\* the Err arm of get_pool_item: PoolItem(Some(self.creator.create_item()), ..)
CreateOverflow(t, c) ==
    /\ pc[t] = "creating"
    /\ IF create_item_panics(c, backend_ok)
       THEN /\ pc' = [pc EXCEPT ![t] = "acquire_panicked"]
            /\ UNCHANGED <<created, item, peak>>
       ELSE /\ created' = created + 1
            /\ item' = [item EXCEPT ![t] = create_item(c, created + 1)]
            /\ pc' = [pc EXCEPT ![t] = "holding"]
            /\ peak' = Max(peak, Cardinality(Outstanding) + 1)
    /\ UNCHANGED <<phase, min_size, conns, free, backend_ok, released, obs,
                   discarded, dropped_any>>
    /\ UNCHANGED <<lockvars, mgrvars, qvars, storevars, cmdvars>>

AfterExit(path) ==
    CASE path = "returning" -> "done"
      [] path = "failing" -> "done_err"
      [] OTHER -> "dead"

\* the PoolItem of thread t leaves its scope on the given path;
\* Drop::drop is self.1.relase(self.0.take().unwrap())
ScopeExit(t, path) ==
    /\ pc' = [pc EXCEPT ![t] = AfterExit(path)]
    /\ IF path \in DropPaths
       THEN /\ free' = relase(free, min_size, item[t])
            /\ discarded' = IF free' = free THEN discarded \cup {item[t]}
                                            ELSE discarded
            /\ item' = [item EXCEPT ![t] = None]
            /\ released' = [released EXCEPT ![t] = @ + 1]
            /\ dropped_any' = TRUE
       ELSE UNCHANGED <<free, discarded, item, released, dropped_any>>
    /\ obs' = [obs EXCEPT ![t] = NoObs]
    /\ UNCHANGED <<phase, min_size, conns, created, backend_ok, peak>>

\* a command (fetch_book, update_book, delete_book, add_book, get_book): the
\* store operation on the leased item ends on one of its paths and the
\* PoolItem temporary of m.get_current_pool()? goes out of scope
CommandExit(t) ==
    /\ pc[t] = "holding"
    /\ \E path \in CommandPaths : ScopeExit(t, path)
    /\ UNCHANGED <<lockvars, mgrvars, qvars, storevars, cmdvars>>

\* the thread runs its next command
Again(t) ==
    /\ pc[t] \in {"done", "done_err"}
    /\ pc' = [pc EXCEPT ![t] = "idle"]
    /\ released' = [released EXCEPT ![t] = 0]
    /\ UNCHANGED <<phase, min_size, conns, free, created, backend_ok, item,
                   obs, discarded, dropped_any, peak>>
    /\ UNCHANGED <<lockvars, mgrvars, qvars, storevars, cmdvars>>

Next ==
    \/ NewPush("SqliteCreator")
    \/ NewReturn
    \/ BackendFails
    \/ \E t \in Threads : GetPoolItem(t, MaxItems)
    \/ \E t \in Threads : CreateOverflow(t, "SqliteCreator")
    \/ \E t \in Threads : CommandExit(t)
    \/ \E t \in Threads : Again(t)

Spec == Init /\ [][Next]_vars

\* ------------------------------------------------- the scenario of pool_test

\* match i { 0..=3 => assert!(available > 0), _ => assert!(available == 0) }
test_assert(i, available) ==
    IF i <= TestLowIndex THEN available > 0 ELSE available = 0

\* creator calls of pool_test: the eager ones and one for every thread at most
TestCap == TestMinSize + TestThreads

TestInit ==
    /\ InitCommon(TestMinSize, TestThreadIds)
    /\ LockInit /\ MgrInit /\ QueryInit /\ StoreInit /\ CmdInit

\* p.available_items() right after the thread's own get_pool_item, then the
\* assertion: the thread sleeps and returns, or panics and unwinds
Observe(t) ==
    /\ pc[t] = "holding"
    /\ obs[t] = NoObs
    /\ obs' = [obs EXCEPT ![t] = available_items(free)]
    /\ pc' = [pc EXCEPT ![t] =
                IF test_assert(t, available_items(free)) THEN "returning"
                                                         ELSE "unwinding"]
    /\ UNCHANGED <<phase, min_size, conns, free, created, backend_ok, item,
                   released, discarded, dropped_any, peak>>
    /\ UNCHANGED <<lockvars, mgrvars, qvars, storevars, cmdvars>>

\* the end of the closure of a spawned thread: s goes out of scope
ThreadExit(t) ==
    /\ pc[t] \in {"returning", "unwinding"}
    /\ ScopeExit(t, pc[t])
    /\ UNCHANGED <<lockvars, mgrvars, qvars, storevars, cmdvars>>

TestNext ==
    \/ NewPush("TestCreator")
    \/ NewReturn
    \/ \E t \in TestThreadIds : GetPoolItem(t, TestCap)
    \/ \E t \in TestThreadIds : CreateOverflow(t, "TestCreator")
    \/ \E t \in TestThreadIds : Observe(t)
    \/ \E t \in TestThreadIds : ThreadExit(t)

SpecPoolTest == TestInit /\ [][TestNext]_vars

\* --------------------------------------- the free-list mutex, lock by lock

\* pc values of a thread inside a critical section of the free-list mutex
LockedPcs == {"acquire_locked", "relase_locked", "avail_locked"}

\* self.0.lock().unwrap(): lock() returns Err on a poisoned mutex, unwrap panics
lock_unwrap_panics(is_poisoned) == is_poisoned

\* an acquire whose guard lives on into the Err arm of get_pool_item
guard_kept_for_create(t, ok) == IF ok THEN NoThread ELSE t

\* the guard v of InnerPool::acquire is dropped when acquire returns, before
\* get_pool_item matches on the result: the holder of the mutex afterwards
guard_after_acquire(t, ok) == NoThread

\* InnerPool::acquire, let mut v = self.0.lock().unwrap()
LockForAcquire(t, cap) ==
    /\ phase = "ready"
    /\ pc[t] = "idle"
    /\ lock = NoThread
    /\ Len(free) > 0 \/ created + Cardinality(Creating) < cap
    /\ IF lock_unwrap_panics(poisoned)
       THEN /\ pc' = [pc EXCEPT ![t] = "lock_panicked"]
            /\ UNCHANGED lock
       ELSE /\ pc' = [pc EXCEPT ![t] = "acquire_locked"]
            /\ lock' = t
    /\ UNCHANGED <<phase, min_size, conns, free, created, backend_ok, item,
                   released, obs, discarded, dropped_any, peak, poisoned>>
    /\ UNCHANGED <<mgrvars, qvars, storevars, cmdvars>>

\* InnerPool::acquire, v.pop().ok_or(false) and the return to get_pool_item
PopAndUnlock(t) ==
    /\ pc[t] = "acquire_locked"
    /\ LET r == acquire(free) IN
         /\ free' = r.v
         /\ lock' = guard_after_acquire(t, r.ok)
         /\ IF r.ok
            THEN /\ item' = [item EXCEPT ![t] = r.item]
                 /\ pc' = [pc EXCEPT ![t] = "holding"]
                 /\ peak' = Max(peak, Cardinality(Outstanding) + 1)
            ELSE /\ pc' = [pc EXCEPT ![t] = "creating"]
                 /\ UNCHANGED <<item, peak>>
    /\ UNCHANGED <<phase, min_size, conns, created, backend_ok, released, obs,
                   discarded, dropped_any, poisoned>>
    /\ UNCHANGED <<mgrvars, qvars, storevars, cmdvars>>

\* PoolItem::drop up to let mut v = self.0.lock().unwrap() of InnerPool::relase;
\* when unwrap panics the item is dropped by the unwinding
LockForRelase(t) ==
    /\ pc[t] = "holding"
    /\ lock = NoThread
    /\ IF lock_unwrap_panics(poisoned)
       THEN /\ pc' = [pc EXCEPT ![t] = "lock_panicked"]
            /\ item' = [item EXCEPT ![t] = None]
            /\ discarded' = discarded \cup {item[t]}
            /\ UNCHANGED lock
       ELSE /\ pc' = [pc EXCEPT ![t] = "relase_locked"]
            /\ lock' = t
            /\ UNCHANGED <<item, discarded>>
    /\ UNCHANGED <<phase, min_size, conns, free, created, backend_ok,
                   released, obs, dropped_any, peak, poisoned>>
    /\ UNCHANGED <<mgrvars, qvars, storevars, cmdvars>>

\* InnerPool::relase, the length check and the push, then the guard is dropped
RelaseAndUnlock(t) ==
    /\ pc[t] = "relase_locked"
    /\ ScopeExit(t, "returning")
    /\ lock' = NoThread
    /\ UNCHANGED <<poisoned, mgrvars, qvars, storevars, cmdvars>>

\* PoolManager::available_items, self.pool.0.lock().unwrap()
LockForAvailable(t) ==
    /\ phase = "ready"
    /\ pc[t] = "idle"
    /\ lock = NoThread
    /\ IF lock_unwrap_panics(poisoned)
       THEN /\ pc' = [pc EXCEPT ![t] = "lock_panicked"]
            /\ UNCHANGED lock
       ELSE /\ pc' = [pc EXCEPT ![t] = "avail_locked"]
            /\ lock' = t
    /\ UNCHANGED <<phase, min_size, conns, free, created, backend_ok, item,
                   released, obs, discarded, dropped_any, peak, poisoned>>
    /\ UNCHANGED <<mgrvars, qvars, storevars, cmdvars>>

\* PoolManager::available_items, .len() and the drop of the temporary guard
LenAndUnlock(t) ==
    /\ pc[t] = "avail_locked"
    /\ pc' = [pc EXCEPT ![t] = "idle"]
    /\ lock' = NoThread
    /\ UNCHANGED <<phase, min_size, conns, free, created, backend_ok, item,
                   released, obs, discarded, dropped_any, peak, poisoned>>
    /\ UNCHANGED <<mgrvars, qvars, storevars, cmdvars>>

LockNext ==
    \/ NewPush("SqliteCreator")
    \/ NewReturn
    \/ \E t \in Threads : LockForAcquire(t, MaxItems)
    \/ \E t \in Threads : PopAndUnlock(t)
    \/ \E t \in Threads : CreateOverflow(t, "SqliteCreator")
    \/ \E t \in Threads : LockForRelase(t)
    \/ \E t \in Threads : RelaseAndUnlock(t)
    \/ \E t \in Threads : LockForAvailable(t)
    \/ \E t \in Threads : LenAndUnlock(t)
    \/ \E t \in Threads : Again(t)

SpecLock == Init /\ [][LockNext]_vars

\* a thread panics while it holds the guard of the free-list mutex: the
\* unwinding drops the guard, which poisons the mutex (std::sync::Mutex)
PanicWhileLocked(t) ==
    /\ pc[t] \in LockedPcs
    /\ lock = t
    /\ pc' = [pc EXCEPT ![t] = "dead"]
    /\ lock' = NoThread
    /\ poisoned' = TRUE
    /\ item' = [item EXCEPT ![t] = None]
    /\ discarded' = IF item[t] # None THEN discarded \cup {item[t]}
                                      ELSE discarded
    /\ UNCHANGED <<phase, min_size, conns, free, created, backend_ok,
                   released, obs, dropped_any, peak>>
    /\ UNCHANGED <<mgrvars, qvars, storevars, cmdvars>>

PoisonNext ==
    \/ LockNext
    \/ \E t \in Threads : PanicWhileLocked(t)

SpecPoison == Init /\ [][PoisonNext]_vars

\* ------------------------------------------------ BookPool::new_sqlite_pool

SqliteInit ==
    /\ phase = "precheck"
    /\ min_size = SqlitePoolSize
    /\ conns = <<>>
    /\ free = <<>>
    /\ created = 0
    /\ backend_ok = TRUE
    /\ pc = [t \in Threads |-> "idle"]
    /\ item = [t \in Threads |-> None]
    /\ released = [t \in Threads |-> 0]
    /\ obs = [t \in Threads |-> NoObs]
    /\ discarded = {}
    /\ dropped_any = FALSE
    /\ peak = 0
    /\ LockInit /\ MgrInit /\ QueryInit /\ StoreInit /\ CmdInit

\* new_sqlite_pool before BookPool::new: path.to_str().ok_or(ConversionFailed)?
\* and the probe SqliteStore::new(&db_file)?, both return an Err to the caller
NewSqlitePoolCheck ==
    /\ phase = "precheck"
    /\ \E path_is_utf8 \in BOOLEAN :
          phase' = IF path_is_utf8 /\ backend_ok THEN "new" ELSE "new_failed"
    /\ UNCHANGED <<min_size, conns, free, created, backend_ok, pc, item,
                   released, obs, discarded, dropped_any, peak>>
    /\ UNCHANGED <<lockvars, mgrvars, qvars, storevars, cmdvars>>

\* the pool has SqlitePoolSize items and fewer threads use it, so the Err arm
\* of get_pool_item is not reached here
SqliteNext ==
    \/ NewSqlitePoolCheck
    \/ NewPush("SqliteCreator")
    \/ NewReturn
    \/ BackendFails
    \/ \E t \in Threads : GetPoolItem(t, SqlitePoolSize)
    \/ \E t \in Threads : CommandExit(t)
    \/ \E t \in Threads : Again(t)

SpecSqlitePool == SqliteInit /\ [][SqliteNext]_vars

\* ------------------------------------------------------------ BookManager

\* names under which the commands register pools (file names of databases)
PoolNames == {"a.db", "b.db"}

\* the map m without the key k
MapRemove(m, k) == [x \in (DOMAIN m) \ {k} |-> m[x]]

\* the map m with k bound to v
MapInsert(m, k, v) == [x \in (DOMAIN m) \cup {k} |-> IF x = k THEN v ELSE m[x]]

\* add_pool without the contains_key check: insert replaces the stored pool
add_pool_overwrite(pools, pool_name, pool) ==
    [pools |-> MapInsert(pools, pool_name, pool), result |-> "Ok"]

\* BookManager::add_pool
add_pool(pools, pool_name, pool) ==
    IF pool_name \in DOMAIN pools
    THEN [pools |-> pools, result |-> "PoolAlreadyAdded"]
    ELSE [pools |-> MapInsert(pools, pool_name, pool), result |-> "Ok"]

\* remove_pool that leaves current as it is
remove_pool_keeps_current(pools, cur, pool_name) ==
    IF pool_name \in DOMAIN pools
    THEN [pools |-> MapRemove(pools, pool_name), current |-> cur,
          result |-> pools[pool_name]]
    ELSE [pools |-> pools, current |-> cur, result |-> None]

\* BookManager::remove_pool.  entry.0 is the key that remove_entry found, the
\* name that was asked for, so the comparison of the Some arm always holds.
remove_pool(pools, cur, pool_name) ==
    IF pool_name \in DOMAIN pools
    THEN LET entry_key == pool_name IN
         [pools |-> MapRemove(pools, pool_name),
          current |-> IF cur # NoName /\ entry_key = pool_name THEN NoName
                                                              ELSE cur,
          result |-> pools[pool_name]]
    ELSE [pools |-> pools, current |-> cur, result |-> None]

\* set_current_pool that replaces current before it looks the name up
set_current_pool_unchecked(pools, cur, pool_name) ==
    [current |-> pool_name,
     result |-> IF pool_name \in DOMAIN pools THEN "Ok" ELSE "PoolNotFound"]

\* BookManager::set_current_pool
set_current_pool(pools, cur, pool_name) ==
    IF pool_name \in DOMAIN pools
    THEN [current |-> pool_name, result |-> "Ok"]
    ELSE [current |-> cur, result |-> "PoolNotFound"]

\* the other bit of the call marker of m_last
Flip(b) == 1 - b

\* live PoolItems of all pools
TotalHandles == Cardinality({<<q, k>> \in (DOMAIN handles) \X (1..MaxHandles) :
                                k <= handles[q]})

\* create_book_db: a BookPool built by new_sqlite_pool is handed to add_pool.
\* An item of pool q is written q.
AddPool(pool_name) ==
    /\ next_pool < MaxPools
    /\ LET q == next_pool + 1
           r == add_pool(book_db_pools, pool_name, q) IN
         /\ next_pool' = q
         /\ pool_free' = Append(pool_free, [k \in 1..SqlitePoolSize |-> q])
         /\ handles' = Append(handles, 0)
         /\ book_db_pools' = r.pools
         /\ m_last' = [op |-> "add_pool", name |-> pool_name,
                       result |-> r.result, pool |-> q,
                       tick |-> Flip(m_last.tick)]
    /\ events' = <<>>
    /\ UNCHANGED <<current, poolvars, lockvars, qvars, storevars, cmdvars>>

\* close_db: m.remove_pool(current.clone()), or any other caller of remove_pool
RemovePool(pool_name) ==
    /\ LET r == remove_pool(book_db_pools, current, pool_name) IN
         /\ book_db_pools' = r.pools
         /\ current' = r.current
         /\ m_last' = [op |-> "remove_pool", name |-> pool_name,
                       result |-> IF r.result = None THEN "None" ELSE "Some",
                       pool |-> r.result, tick |-> Flip(m_last.tick)]
    /\ events' = <<>>
    /\ UNCHANGED <<pool_free, next_pool, handles, poolvars, lockvars, qvars, storevars, cmdvars>>

\* set_current_db: m.set_current_pool(&db)
SetCurrentPool(pool_name) ==
    /\ LET r == set_current_pool(book_db_pools, current, pool_name) IN
         /\ current' = r.current
         /\ m_last' = [op |-> "set_current_pool", name |-> pool_name,
                       result |-> r.result, pool |-> None,
                       tick |-> Flip(m_last.tick)]
    /\ events' = <<>>
    /\ UNCHANGED <<book_db_pools, pool_free, next_pool, handles, poolvars,
                   lockvars, qvars, storevars, cmdvars>>

\* BookManager::get_current_pool, with the get_pool_item of the pool it finds
GetCurrentPool ==
    /\ TotalHandles < MaxHandles
    /\ IF current = NoName
       THEN /\ m_last' = [op |-> "get_current_pool", name |-> current,
                          result |-> "CurrentPoolNotSet", pool |-> None,
                          tick |-> Flip(m_last.tick)]
            /\ UNCHANGED <<pool_free, handles>>
       ELSE IF current \notin DOMAIN book_db_pools
       THEN /\ m_last' = [op |-> "get_current_pool", name |-> current,
                          result |-> "PoolNotFound", pool |-> None,
                          tick |-> Flip(m_last.tick)]
            /\ UNCHANGED <<pool_free, handles>>
       ELSE LET q == book_db_pools[current]
                r == acquire(pool_free[q]) IN
            IF ~r.ok /\ create_item_panics("SqliteCreator", backend_ok)
            THEN /\ m_last' = [op |-> "get_current_pool", name |-> current,
                               result |-> "panic", pool |-> q,
                               tick |-> Flip(m_last.tick)]
                 /\ UNCHANGED <<pool_free, handles>>
            ELSE /\ pool_free' = [pool_free EXCEPT ![q] = r.v]
                 /\ handles' = [handles EXCEPT ![q] = @ + 1]
                 /\ m_last' = [op |-> "get_current_pool", name |-> current,
                               result |-> "PoolItem", pool |-> q,
                               tick |-> Flip(m_last.tick)]
    /\ events' = <<>>
    /\ UNCHANGED <<book_db_pools, current, next_pool, poolvars, lockvars,
                   qvars, storevars, cmdvars>>

\* a PoolItem of pool q goes out of scope: PoolItem::drop, InnerPool::relase
DropHandle(q) ==
    /\ handles[q] > 0
    /\ handles' = [handles EXCEPT ![q] = @ - 1]
    /\ pool_free' = [pool_free EXCEPT ![q] = relase(@, SqlitePoolSize, q)]
    /\ UNCHANGED <<book_db_pools, current, next_pool, m_last, events, poolvars,
                   lockvars, qvars, storevars, cmdvars>>

\* the name of the current pool, or Err(CurrentPoolNotSet) when none is set
current_pool_name(cur) ==
    IF cur = NoName THEN [ok |-> FALSE, name |-> NoName]
                    ELSE [ok |-> TRUE, name |-> cur]

\* get_pools().first().unwrap_or(&""): the keys of a HashMap come in no
\* fixed order, so any registered name can be the first
first_or_empty(names) == IF names = {} THEN {""} ELSE names

\* the events of close_db were they emitted whatever set_current_pool returns
close_db_events_always(result, db, names) ==
    <<[event |-> "CurrentDBChanged", db |-> db],
      [event |-> "OpenDBChanged", dbs |-> names]>>

\* the events close_db emits: `?` leaves it before the first emit_all when
\* set_current_pool returns Err
close_db_events(result, db, names) ==
    IF result = "Ok"
    THEN <<[event |-> "CurrentDBChanged", db |-> db],
           [event |-> "OpenDBChanged", dbs |-> names]>>
    ELSE <<>>

\* the close_db command, under the guard of BookManagerState
CloseDb ==
    LET n == current_pool_name(current) IN
    /\ IF ~n.ok
       THEN /\ m_last' = [op |-> "close_db", name |-> NoName,
                          result |-> "CurrentPoolNotSet", pool |-> None,
                          tick |-> Flip(m_last.tick)]
            /\ events' = <<>>
            /\ UNCHANGED <<book_db_pools, current>>
       ELSE LET r == remove_pool(book_db_pools, current, n.name) IN
            \E db \in first_or_empty(DOMAIN r.pools) :
               LET s == set_current_pool(r.pools, r.current, db) IN
               /\ book_db_pools' = r.pools
               /\ current' = s.current
               /\ m_last' = [op |-> "close_db", name |-> n.name,
                             result |-> s.result, pool |-> r.result,
                             tick |-> Flip(m_last.tick)]
               /\ events' = close_db_events(s.result, db, DOMAIN r.pools)
    /\ UNCHANGED <<pool_free, next_pool, handles, poolvars, lockvars, qvars,
                   storevars, cmdvars>>

MgrNext ==
    \/ CloseDb
    \/ \E n \in PoolNames : AddPool(n)
    \/ \E n \in PoolNames : RemovePool(n)
    \/ \E n \in PoolNames : SetCurrentPool(n)
    \/ GetCurrentPool
    \/ \E q \in DOMAIN handles : DropHandle(q)
    \/ BackendFails

\* a BookManagerState::default(); no pool of the first part is in use
ManagerInit ==
    /\ InitCommon(0, {})
    /\ LockInit /\ MgrInit /\ QueryInit /\ StoreInit /\ CmdInit

SpecManager == ManagerInit /\ [][MgrNext]_vars

\* ------------------------------------------- QueryBuilder (books/store.rs)
\* A row is written as the text its searched column holds (the title of a
\* book, the tag of a tag, the name of an author); a table holds every row
\* once (the id of a book, SELECT DISTINCT tag, SELECT DISTINCT name).
RowTexts == {"a", "b", "ab", "ba"}

\* the search texts of a request; "" is the empty text
SearchTexts == {"", "a", "b", "a b"}

\* the texts that are substrings of a column text
Substrings ==
    [x \in RowTexts |->
        CASE x = "a" -> {"", "a"}
          [] x = "b" -> {"", "b"}
          [] x = "ab" -> {"", "a", "b", "ab"}
          [] x = "ba" -> {"", "a", "b", "ba"}]

\* txt.split(' ')
split_on_space ==
    [txt \in SearchTexts |->
        CASE txt = "a b" -> <<"a", "b">>
          [] OTHER -> <<txt>>]

\* format!("%{}%", txt): the LIKE pattern of a text
like_pattern(txt) == [contains |-> txt]

\* column LIKE pattern
like(column, pattern) == pattern.contains \in Substrings[column]

OptionU64(max) == {Nothing} \cup {Some(n) : n \in 0..max}

\* SortOrder
SortOrders == {"Asc", "Desc"}

\* the column names a caller puts into a SortDescriptor: the String is free
\* text, so one name that is no column of the table is among them
SortColumns == {"title", "no_such_column"}

\* the columns of SELECT_BOOKS_QUERY
KnownColumns ==
    {"id", "cover_img", "description", "isbn", "lang", "title", "sub_title",
     "publisher", "publish_date", "created", "updated"}

\* SortDescriptor(pub String, pub SortOrder)
SortDescriptors == SortColumns \X SortOrders

\* Option<Vec<SortDescriptor>> of at most max descriptors
OptionSort(max) ==
    {Nothing} \cup
    {Some(v) : v \in UNION {[1..n -> SortDescriptors] : n \in 0..max}}

\* SearchConfig<ConfigInitialized> with its sort drawn from sorts
SearchConfigsWith(sorts) ==
    [text : SearchTexts, take : OptionU64(MaxTake),
     skip : OptionU64(MaxSkip), sort : sorts]

\* the requests whose statements are run against a table: the rows of a
\* table are kept in storage order, so these carry no sort
SearchConfigs == SearchConfigsWith({Nothing})

\* the requests a QueryBuilder is built from in the runs that follow its
\* calls one by one: every sort, take and skip_page absent or at their
\* largest
BuilderConfigs ==
    [text : SearchTexts, take : {Nothing, Some(MaxTake)},
     skip : {Nothing, Some(MaxSkip)}, sort : OptionSort(MaxSort)]

\* the rows of q whose column matches the pattern, in order
RECURSIVE SelectRows(_, _)
SelectRows(q, pattern) ==
    IF q = <<>> THEN <<>>
    ELSE (IF like(Head(q), pattern) THEN <<Head(q)>> ELSE <<>>)
            \o SelectRows(Tail(q), pattern)

Min(a, b) == IF a < b THEN a ELSE b

\* a LIMIT that takes "LIMIT m, n" as at most m rows after skipping n
sqlite_limit_count_first(q, limit_args) ==
    CASE Len(limit_args) = 0 -> q
      [] Len(limit_args) = 1 -> SubSeq(q, 1, Min(Len(q), limit_args[1]))
      [] Len(limit_args) = 2 ->
            SubSeq(q, limit_args[2] + 1,
                   Min(Len(q), limit_args[2] + limit_args[1]))

\* what SQLite does with the LIMIT arguments as written in the statement:
\* "LIMIT n" returns at most n rows from the first row on, "LIMIT m, n"
\* skips m rows and returns at most n rows
sqlite_limit(q, limit_args) ==
    CASE Len(limit_args) = 0 -> q
      [] Len(limit_args) = 1 -> SubSeq(q, 1, Min(Len(q), limit_args[1]))
      [] Len(limit_args) = 2 ->
            SubSeq(q, limit_args[1] + 1,
                   Min(Len(q), limit_args[1] + limit_args[2]))

\* the text pushed for the descriptors of a sort, as its pieces:
\* format!(" {} ASC,", d.0) is a blank, the column, the direction, a comma
RECURSIVE push_descriptors(_)
push_descriptors(sort) ==
    IF sort = <<>> THEN <<>>
    ELSE <<" ", Head(sort)[1],
           IF Head(sort)[2] = "Asc" THEN " ASC" ELSE " DESC", ",">>
            \o push_descriptors(Tail(sort))

\* the ORDER BY part of QueryBuilder::new without its sf.pop()
order_by_keeps_comma(sort) ==
    IF IsSome(sort) /\ sort[1] # <<>>
    THEN Append(<<"ORDER BY">> \o push_descriptors(sort[1]), " ")
    ELSE <<>>

\* the ORDER BY part of QueryBuilder::new: sf.pop() drops the last piece
\* pushed, sf.push(' ') ends the clause
order_by(sort) ==
    IF IsSome(sort) /\ sort[1] # <<>>
    THEN LET sf == <<"ORDER BY">> \o push_descriptors(sort[1])
         IN  Append(SubSeq(sf, 1, Len(sf) - 1), " ")
    ELSE <<>>

\* the skipped field with the skip_page of every request copied into it
skipped_of_any_skip(config) ==
    IF IsSome(config.skip) THEN config.skip[1] ELSE 0

\* the skipped field of QueryBuilder::new
skipped_of(config) ==
    IF IsSome(config.take) /\ IsSome(config.skip) /\ config.skip[1] > 0
    THEN config.skip[1]
    ELSE 0

\* QueryBuilder::new: sort_limit is written as the pieces of its ORDER BY
\* clause and the arguments of its LIMIT clause, in the order
\* format!("LIMIT {}, {}", l, s) prints them
QueryBuilder_new(query, config) ==
    LET paged == IsSome(config.take) /\ IsSome(config.skip)
                    /\ config.skip[1] > 0
    IN  [query |-> query,
         text |-> config.text,
         skipped |-> skipped_of(config),
         filter |-> Nothing,
         search_params |-> Nothing,
         sort_limit |->
            [order_by |-> order_by(config.sort),
             limit |-> IF ~IsSome(config.take) THEN <<>>
                       ELSE IF paged
                            THEN <<config.take[1], config.skip[1]>>
                            ELSE <<config.take[1]>>],
         params |-> Nothing]

\* use_where_clause with the transform applied to an empty text as well
use_where_clause_any_text(b, transform) ==
    IF IsSome(b.params) THEN [ok |-> FALSE, b |-> b]
    ELSE IF transform.placeholders = 0
         THEN [ok |-> TRUE, b |-> b]
         ELSE [ok |-> TRUE,
               b |-> [b EXCEPT
                        !.filter = Some(transform.placeholders),
                        !.search_params = Some(transform.params)]]

\* use_where_clause that stores the parameters before it looks at the clause
use_where_clause_params_first(b, transform) ==
    IF IsSome(b.params) THEN [ok |-> FALSE, b |-> b]
    ELSE IF b.text # ""
         THEN IF transform.placeholders = 0
              THEN [ok |-> TRUE,
                    b |-> [b EXCEPT !.search_params = Some(transform.params)]]
              ELSE [ok |-> TRUE,
                    b |-> [b EXCEPT
                             !.filter = Some(transform.placeholders),
                             !.search_params = Some(transform.params)]]
         ELSE [ok |-> TRUE, b |-> b]

\* QueryBuilder::use_where_clause; a clause is written as the number of its
\* '?' placeholders, transform gives the clause and its parameters
use_where_clause(b, transform) ==
    IF IsSome(b.params) THEN [ok |-> FALSE, b |-> b]
    ELSE IF b.text # ""
         THEN IF transform.placeholders = 0
              THEN [ok |-> TRUE, b |-> b]
              ELSE [ok |-> TRUE,
                    b |-> [b EXCEPT
                             !.filter = Some(transform.placeholders),
                             !.search_params = Some(transform.params)]]
         ELSE [ok |-> TRUE, b |-> b]

\* QueryBuilder::use_params
use_params(b, params) ==
    IF IsSome(b.filter) THEN [ok |-> FALSE, b |-> b]
    ELSE [ok |-> TRUE, b |-> [b EXCEPT !.params = Some(params)]]

\* rows a statement with the given '?' placeholders and bound parameters
\* selects: the clauses of get_tags and get_authors are LIKEs on one column
\* joined by AND, one per parameter
matching(q, placeholders, bound) ==
    IF placeholders = 0 THEN q
    ELSE SelectSeq(q, LAMBDA row :
            \A i \in 1..placeholders : like(row, bound[i]))

\* the '?' placeholders of the statement of a builder: those of its query
\* and those of its filter
placeholders_of(b) ==
    b.query.placeholders + (IF IsSome(b.filter) THEN b.filter[1] ELSE 0)

\* a count query built after sort_limit was pushed to the query
count_query_limited(b) ==
    [placeholders |-> placeholders_of(b),
     bound |-> IF IsSome(b.search_params) THEN b.search_params[1] ELSE <<>>,
     sort_limit |-> b.sort_limit]

\* the count query of QueryBuilder::fetch: SELECT COUNT(*) FROM (query and
\* filter), bound to search_params or to nothing
count_query(b) ==
    [placeholders |-> placeholders_of(b),
     bound |-> IF IsSome(b.search_params) THEN b.search_params[1] ELSE <<>>,
     sort_limit |-> NoSortLimit]

\* the fetch query of QueryBuilder::fetch: query, filter and sort_limit,
\* bound to all_params
fetch_query(b) ==
    [placeholders |-> placeholders_of(b),
     bound |-> IF IsSome(b.search_params) THEN b.search_params[1]
               ELSE IF IsSome(b.params) THEN b.params[1]
               ELSE <<>>,
     sort_limit |-> b.sort_limit]

\* the rows a statement returns
statement_rows(stmt, q) ==
    sqlite_limit(matching(q, stmt.placeholders, stmt.bound),
                 stmt.sort_limit.limit)

\* QueryBuilder::fetch: the count query, then the fetch query; a statement
\* bound to another number of parameters than it has placeholders fails
fetch(b, q) ==
    LET count == count_query(b)
        query == fetch_query(b)
    IN  IF Len(count.bound) # count.placeholders
            \/ Len(query.bound) # query.placeholders
        THEN [ok |-> FALSE, result |-> StoreResultDefault,
              count |-> count, query |-> query]
        ELSE [ok |-> TRUE,
              result |-> [total |-> Len(statement_rows(count, q)),
                          skipped |-> b.skipped,
                          items |-> statement_rows(query, q)],
              count |-> count, query |-> query]

\* WHERE id IN (.. LIKE ? ..) of fetch_books has 7 placeholders
FetchBooksPlaceholders == 7
\* vec![&txt, ..] of fetch_books has 9 elements
FetchBooksParams == 9

\* SqliteStore::fetch_books
fetch_books(q, search) ==
    LET query == IF search.text # ""
                 THEN [base |-> "books", placeholders |-> FetchBooksPlaceholders]
                 ELSE [base |-> "books", placeholders |-> 0]
        b0 == QueryBuilder_new(query, search)
        txt == like_pattern(search.text)
        r == IF search.text # ""
             THEN use_params(b0, [i \in 1..FetchBooksParams |-> txt])
             ELSE [ok |-> TRUE, b |-> b0]
    IN  fetch(r.b, q)

\* the closure get_tags hands to use_where_clause
tags_clause(txt) ==
    [placeholders |-> 1, params |-> <<like_pattern(txt)>>]

\* SqliteStore::get_tags
get_tags(q, search) ==
    LET b0 == QueryBuilder_new([base |-> "tags", placeholders |-> 0], search)
        r == use_where_clause(b0, tags_clause(b0.text))
    IN  fetch(r.b, q)

\* the closure get_authors hands to use_where_clause: one "name LIKE ?" per
\* part of the text
authors_clause(txt) ==
    LET parts == [i \in DOMAIN split_on_space[txt] |->
                    like_pattern(split_on_space[txt][i])]
    IN  [placeholders |-> Len(parts), params |-> parts]

\* SqliteStore::get_authors
get_authors(q, search) ==
    LET b0 == QueryBuilder_new([base |-> "authors", placeholders |-> 0], search)
        r == use_where_clause(b0, authors_clause(b0.text))
    IN  fetch(r.b, q)

\* a row is stored (add_book, or a tag or an author saved with a book); the
\* last result was fetched from the table as it was and is forgotten
AddRow(v) ==
    /\ Len(db_rows) < MaxRows
    /\ \A i \in 1..Len(db_rows) : db_rows[i] # v
    /\ db_rows' = Append(db_rows, v)
    /\ q_last' = NoFetch
    /\ UNCHANGED <<qb, poolvars, lockvars, mgrvars, storevars, cmdvars>>

\* what a fetch leaves in q_last
Fetched(op, search, r) ==
    [op |-> op, rows |-> db_rows, search |-> search, ok |-> r.ok,
     result |-> r.result, count |-> r.count, query |-> r.query]

FetchBooks(search) ==
    /\ q_last' = Fetched("fetch_books", search, fetch_books(db_rows, search))
    /\ UNCHANGED <<db_rows, qb, poolvars, lockvars, mgrvars, storevars, cmdvars>>

GetTags(search) ==
    /\ q_last' = Fetched("get_tags", search, get_tags(db_rows, search))
    /\ UNCHANGED <<db_rows, qb, poolvars, lockvars, mgrvars, storevars, cmdvars>>

GetAuthors(search) ==
    /\ q_last' = Fetched("get_authors", search, get_authors(db_rows, search))
    /\ UNCHANGED <<db_rows, qb, poolvars, lockvars, mgrvars, storevars, cmdvars>>

QueryNext ==
    \/ \E v \in RowTexts : AddRow(v)
    \/ \E search \in SearchConfigs : FetchBooks(search)
    \/ \E search \in SearchConfigs : GetTags(search)
    \/ \E search \in SearchConfigs : GetAuthors(search)

SpecQuery == ManagerInit /\ [][QueryNext]_vars

\* the rows of the last fetch that its request text selects: for get_authors
\* those that contain every part of the text, otherwise those that contain
\* the text
LastMatching ==
    IF q_last.search.text = "" THEN q_last.rows
    ELSE IF q_last.op = "get_authors"
         THEN SelectSeq(q_last.rows, LAMBDA row :
                \A i \in DOMAIN split_on_space[q_last.search.text] :
                    split_on_space[q_last.search.text][i] \in Substrings[row])
         ELSE SelectSeq(q_last.rows, LAMBDA row :
                q_last.search.text \in Substrings[row])

\* p is the beginning of q
IsPrefix(p, q) == Len(p) <= Len(q) /\ p = SubSeq(q, 1, Len(p))

\* ---------------------------------- calls on one QueryBuilder (store.rs)
\* the clauses a closure handed to use_where_clause may return for a text:
\* an empty fragment, or one LIKE bound to the pattern of the text
Transforms(txt) ==
    {[placeholders |-> 0, params |-> <<>>],
     [placeholders |-> 0, params |-> <<like_pattern(txt)>>],
     tags_clause(txt)}

\* the parameter lists handed to use_params
ParamLists(txt) ==
    {<<>>, <<like_pattern(txt)>>}

\* QueryBuilder::new(query, config)
BuilderNew(config) ==
    /\ qb.stage = "none"
    /\ qb' = [stage |-> "built",
              b |-> QueryBuilder_new([base |-> "tags", placeholders |-> 0],
                                     config),
              config |-> config, calls |-> <<>>, fetched |-> FALSE]
    /\ UNCHANGED <<db_rows, q_last, poolvars, lockvars, mgrvars, storevars, cmdvars>>

\* builder.use_where_clause(transform)
UseWhereClause(transform) ==
    /\ qb.stage = "built" /\ ~qb.fetched
    /\ Len(qb.calls) < MaxCalls
    /\ LET r == use_where_clause(qb.b, transform)
       IN  qb' = [qb EXCEPT
                    !.b = r.b,
                    !.calls = Append(@, [call |-> "use_where_clause",
                                         ok |-> r.ok,
                                         empty |-> transform.placeholders = 0])]
    /\ UNCHANGED <<db_rows, q_last, poolvars, lockvars, mgrvars, storevars, cmdvars>>

\* builder.use_params(params)
UseParams(params) ==
    /\ qb.stage = "built" /\ ~qb.fetched
    /\ Len(qb.calls) < MaxCalls
    /\ LET r == use_params(qb.b, params)
       IN  qb' = [qb EXCEPT
                    !.b = r.b,
                    !.calls = Append(@, [call |-> "use_params",
                                         ok |-> r.ok, empty |-> FALSE])]
    /\ UNCHANGED <<db_rows, q_last, poolvars, lockvars, mgrvars, storevars, cmdvars>>

\* builder.fetch(..): the callers of store.rs reach it only when every
\* use_ call before returned Ok (they leave with `?` otherwise)
BuilderFetch ==
    /\ qb.stage = "built" /\ ~qb.fetched
    /\ \A i \in 1..Len(qb.calls) : qb.calls[i].ok
    /\ qb' = [qb EXCEPT !.fetched = TRUE]
    /\ q_last' = Fetched("builder", qb.config, fetch(qb.b, db_rows))
    /\ UNCHANGED <<db_rows, poolvars, lockvars, mgrvars, storevars, cmdvars>>

\* the builder goes out of scope, and its result with it
BuilderDrop ==
    /\ qb.stage = "built"
    /\ qb' = NoBuilder
    /\ q_last' = NoFetch
    /\ UNCHANGED <<db_rows, poolvars, lockvars, mgrvars, storevars, cmdvars>>

BuilderNext ==
    \/ \E config \in BuilderConfigs : BuilderNew(config)
    \/ \E transform \in Transforms(qb.b.text) : UseWhereClause(transform)
    \/ \E params \in ParamLists(qb.b.text) : UseParams(params)
    \/ BuilderFetch
    \/ BuilderDrop

SpecBuilder == ManagerInit /\ [][BuilderNext]_vars

\* --------------------------------------- SqliteStore writes (store.rs)
\* A stored book is its row of books (written as its title), its rows of
\* authors and its rows of tags, each in the order they were inserted.
Titles == {"t1", "t2"}
AuthorNames == {"x", "y"}
TagNames == {"p", "q"}

\* Vec<String> of at most MaxList elements
Lists(names) == UNION {[1..n -> names] : n \in 0..MaxList}

\* the Book values handed to the store, with the id they carry
Books(ids) ==
    [id : ids, title : Titles, authors : Lists(AuthorNames),
     tags : {Nothing} \cup {Some(v) : v \in Lists(TagNames)}]

\* v with x inserted before the first element greater than x
RECURSIVE insert_sorted(_, _)
insert_sorted(v, x) ==
    IF v = <<>> THEN <<x>>
    ELSE IF x \in {"p", "x"} \/ Head(v) \in {"q", "y"}
         THEN <<x>> \o v
         ELSE <<Head(v)>> \o insert_sorted(Tail(v), x)

\* Vec::sort of a list of names ("p" < "q", "x" < "y")
RECURSIVE sort(_)
sort(v) == IF v = <<>> THEN <<>> ELSE insert_sorted(sort(Tail(v)), Head(v))

\* Vec::dedup: consecutive equal elements collapse into one
RECURSIVE dedup(_)
dedup(v) ==
    IF Len(v) < 2 THEN v
    ELSE IF v[1] = v[2] THEN dedup(Tail(v))
         ELSE <<v[1]>> \o dedup(Tail(v))

\* update_book_tags: the rows of tags of the book after it, and the Book
\* as it leaves it
update_book_tags(book) ==
    IF ~IsSome(book.tags) THEN [rows |-> <<>>, book |-> book]
    ELSE IF book.tags[1] = <<>>
         THEN [rows |-> <<>>, book |-> [book EXCEPT !.tags = Nothing]]
         ELSE LET t == dedup(sort(book.tags[1]))
              IN  [rows |-> t, book |-> [book EXCEPT !.tags = Some(t)]]

\* update_book_authors: Err(EmptyAuthors) before any statement, or the rows
\* of authors of the book after it
update_book_authors(rows, book) ==
    IF book.authors = <<>>
    THEN [ok |-> FALSE, rows |-> rows, book |-> book]
    ELSE [ok |-> TRUE, rows |-> sort(book.authors),
          book |-> [book EXCEPT !.authors = sort(@)]]

\* a Transaction dropped without commit, were it to commit what it wrote
drop_transaction_commits(committed, written) == written

\* a Transaction dropped without commit (leaving with `?`): rusqlite rolls
\* it back, the committed rows stay
drop_transaction(committed, written) == committed

\* SqliteStore::add_book, the whole transaction; the id the Book carries
\* is replaced by the row id of the insert
AddBook(book) ==
    /\ call.pc \in {"idle", "done"}
    /\ Cardinality(DOMAIN store) < MaxBooks
    /\ LET book_id == CHOOSE i \in 1..MaxBooks : i \notin DOMAIN store
           row == [title |-> book.title, authors |-> book.authors,
                   tags |-> IF IsSome(book.tags) THEN book.tags[1] ELSE <<>>]
       IN  /\ store' = [i \in DOMAIN store \cup {book_id} |->
                            IF i = book_id THEN row ELSE store[i]]
           /\ call' = [op |-> "add_book", pc |-> "done", result |-> "Ok",
                       book |-> [book EXCEPT
                                   !.id = book_id,
                                   !.authors = sort(@),
                                   !.tags = IF IsSome(@) THEN Some(sort(@[1]))
                                            ELSE @]]
           /\ deleted' = deleted \ {book_id}
    /\ UNCHANGED <<tx, poolvars, lockvars, mgrvars, qvars, cmdvars>>

\* update_book up to update_book_tags: the transaction is opened and the
\* UPDATE of the row of books is executed in it
UpdateBookRow(book) ==
    /\ call.pc \in {"idle", "done"}
    /\ book.id \in DOMAIN store
    /\ tx' = Some([store EXCEPT ![book.id].title = book.title])
    /\ call' = [op |-> "update_book", pc |-> "tags", result |-> "none",
                book |-> book]
    /\ UNCHANGED <<store, deleted, poolvars, lockvars, mgrvars, qvars, cmdvars>>

\* update_book_tags(&tx, book)?
UpdateBookTags ==
    /\ call.op = "update_book" /\ call.pc = "tags"
    /\ LET r == update_book_tags(call.book)
       IN  /\ tx' = Some([tx[1] EXCEPT ![call.book.id].tags = r.rows])
           /\ call' = [call EXCEPT !.pc = "authors", !.book = r.book]
    /\ UNCHANGED <<store, deleted, poolvars, lockvars, mgrvars, qvars, cmdvars>>

\* update_book_authors(&tx, book)?: on Err update_book returns and the
\* transaction is dropped
UpdateBookAuthors ==
    /\ call.op = "update_book" /\ call.pc = "authors"
    /\ LET r == update_book_authors(tx[1][call.book.id].authors, call.book)
       IN  IF r.ok
           THEN /\ tx' = Some([tx[1] EXCEPT ![call.book.id].authors = r.rows])
                /\ call' = [call EXCEPT !.pc = "commit", !.book = r.book]
                /\ UNCHANGED store
           ELSE /\ store' = drop_transaction(store, tx[1])
                /\ tx' = Nothing
                /\ call' = [call EXCEPT !.pc = "done",
                                        !.result = "EmptyAuthors"]
    /\ UNCHANGED <<deleted, poolvars, lockvars, mgrvars, qvars, cmdvars>>

\* tx.commit()?; Ok(())
UpdateBookCommit ==
    /\ call.op = "update_book" /\ call.pc = "commit"
    /\ store' = tx[1]
    /\ tx' = Nothing
    /\ call' = [call EXCEPT !.pc = "done", !.result = "Ok"]
    /\ UNCHANGED <<deleted, poolvars, lockvars, mgrvars, qvars, cmdvars>>

\* a BookError other than NotFound for every rusqlite::Error
from_rusqlite_error_opaque(value) == "DBError"

\* impl From<rusqlite::Error> for BookError
from_rusqlite_error(value) ==
    IF value = "QueryReturnedNoRows" THEN "NotFound" ELSE "DBError"

\* load_authors_of_book: the rows of authors of the book, ORDER BY name ASC
load_authors_of_book(rows) == sort(rows)

\* load_tags_of_book: the rows of tags of the book, ORDER BY tag ASC
load_tags_of_book(rows) == sort(rows)

\* map_sqlite_row_to_book: the Book read from the row of books with this id;
\* no row of tags is read back as None
map_sqlite_row_to_book(rows, id) ==
    [id |-> id, title |-> rows[id].title,
     authors |-> load_authors_of_book(rows[id].authors),
     tags |-> LET t == load_tags_of_book(rows[id].tags)
              IN  IF Len(t) = 0 THEN Nothing ELSE Some(t)]

\* SqliteStore::get_book: query_row over "... WHERE id = ?1"; without a row
\* rusqlite returns QueryReturnedNoRows, which `?` converts
get_book(rows, id) ==
    IF id \in DOMAIN rows
    THEN [result |-> "Ok", book |-> map_sqlite_row_to_book(rows, id)]
    ELSE [result |-> from_rusqlite_error("QueryReturnedNoRows"),
          book |-> [NoCall.book EXCEPT !.id = id]]

\* SqliteStore::delete_book_by_id: DELETE FROM books WHERE id = ?; the rows
\* of authors and tags of the book go with the row of books
delete_book_by_id(rows, id) == [i \in DOMAIN rows \ {id} |-> rows[i]]

\* SqliteStore::get_book on the connection of the store
GetBook(id) ==
    /\ call.pc \in {"idle", "done"}
    /\ LET r == get_book(store, id)
       IN  call' = [op |-> "get_book", pc |-> "done", result |-> r.result,
                    book |-> r.book]
    /\ UNCHANGED <<store, tx, deleted, poolvars, lockvars, mgrvars, qvars, cmdvars>>

\* SqliteStore::delete_book_by_id (and delete_book, which passes book.id);
\* Ok whether or not a row was deleted
DeleteBookById(id) ==
    /\ call.pc \in {"idle", "done"}
    /\ store' = delete_book_by_id(store, id)
    /\ deleted' = deleted \cup {id}
    /\ call' = [op |-> "delete_book_by_id", pc |-> "done", result |-> "Ok",
                book |-> [NoCall.book EXCEPT !.id = id]]
    /\ UNCHANGED <<tx, poolvars, lockvars, mgrvars, qvars, cmdvars>>

StoreNext ==
    \/ \E book \in Books({0}) : AddBook(book)
    \/ \E book \in Books(1..MaxBooks) : UpdateBookRow(book)
    \/ UpdateBookTags
    \/ UpdateBookAuthors
    \/ UpdateBookCommit
    \/ \E id \in 1..MaxBooks + 1 : GetBook(id)
    \/ \E id \in 1..MaxBooks + 1 : DeleteBookById(id)

SpecStore == ManagerInit /\ [][StoreNext]_vars

\* ------------------------------------------- book commands (commands.rs)
\* fetch_book, update_book, delete_book, add_book, get_book
BookCommands ==
    {"fetch_book", "update_book", "delete_book", "add_book", "get_book"}

\* the commands whose store call is the tail expression of the function
\* body: Ok(m.get_current_pool()?.get_book(id)?)
TailCommands == {"get_book"}

\* a database has been opened with create_book_db or open_db, and either
\* made current or not; no command is running
CommandsInit ==
    /\ InitCommon(0, {})
    /\ LockInit /\ QueryInit /\ StoreInit /\ CmdInit
    /\ book_db_pools = [n \in {"a.db"} |-> 1]
    /\ current \in {NoName, "a.db"}
    /\ pool_free = <<[k \in 1..SqlitePoolSize |-> 1]>>
    /\ next_pool = 1
    /\ handles = <<0>>
    /\ m_last = [op |-> "none", name |-> NoName, result |-> "none",
                 pool |-> None, tick |-> 0]
    /\ events = <<>>

\* let m = rec_pois!(manager.0): the guard is taken, a poisoned one as well
CmdLock(t, op) ==
    /\ cmd[t].pc = "idle"
    /\ guard = NoThread
    /\ guard' = t
    /\ cmd' = [cmd EXCEPT ![t] = [op |-> op, pc |-> "locked"]]
    /\ UNCHANGED <<poolvars, lockvars, mgrvars, qvars, storevars>>

\* m.get_current_pool()?: on Err, and on the panic of create_item, the
\* command is left and m is dropped
CmdGetCurrentPool(t) ==
    /\ cmd[t].pc = "locked"
    /\ IF current = NoName \/ current \notin DOMAIN book_db_pools
       THEN /\ cmd' = [cmd EXCEPT ![t] = NoCommand]
            /\ guard' = NoThread
            /\ UNCHANGED <<pool_free, handles>>
       ELSE LET q == book_db_pools[current]
                r == acquire(pool_free[q]) IN
            IF ~r.ok /\ create_item_panics("SqliteCreator", backend_ok)
            THEN /\ cmd' = [cmd EXCEPT ![t] = NoCommand]
                 /\ guard' = NoThread
                 /\ UNCHANGED <<pool_free, handles>>
            ELSE /\ pool_free' = [pool_free EXCEPT ![q] = r.v]
                 /\ handles' = [handles EXCEPT ![q] = @ + 1]
                 /\ cmd' = [cmd EXCEPT ![t].pc = "operating"]
                 /\ UNCHANGED guard
    /\ UNCHANGED <<book_db_pools, current, next_pool, m_last, events, poolvars,
                   lockvars, qvars, storevars>>

\* the store call of a command that is a statement of its own returns, Ok
\* or Err: the PoolItem temporary is dropped at the end of the statement,
\* m is still alive
CmdStatementEnds(t) ==
    /\ cmd[t].pc = "operating"
    /\ cmd[t].op \notin TailCommands
    /\ LET q == book_db_pools[current] IN
         /\ handles' = [handles EXCEPT ![q] = @ - 1]
         /\ pool_free' = [pool_free EXCEPT ![q] = relase(@, SqlitePoolSize, q)]
    /\ cmd' = [cmd EXCEPT ![t].pc = "returning"]
    /\ UNCHANGED <<guard, book_db_pools, current, next_pool, m_last, events,
                   poolvars, lockvars, qvars, storevars>>

\* the store call in the tail expression returns; its PoolItem temporary
\* lives on to the end of the function body
CmdTailCallEnds(t) ==
    /\ cmd[t].pc = "operating"
    /\ cmd[t].op \in TailCommands
    /\ cmd' = [cmd EXCEPT ![t].pc = "tail"]
    /\ UNCHANGED <<guard, poolvars, lockvars, mgrvars, qvars, storevars>>

\* end of the function body in the editions up to 2021: the locals are
\* dropped first, m among them, the temporaries of the tail expression after
CmdTailDropsGuard(t) ==
    /\ cmd[t].pc = "tail"
    /\ guard' = NoThread
    /\ cmd' = [cmd EXCEPT ![t].pc = "tail_unguarded"]
    /\ UNCHANGED <<poolvars, lockvars, mgrvars, qvars, storevars>>

\* the PoolItem temporary of the tail expression is dropped: after m in the
\* editions up to 2021, before m in the edition 2024
CmdTailDropsItem(t) ==
    /\ cmd[t].pc \in {"tail", "tail_unguarded"}
    /\ LET q == book_db_pools[current] IN
         /\ handles' = [handles EXCEPT ![q] = @ - 1]
         /\ pool_free' = [pool_free EXCEPT ![q] = relase(@, SqlitePoolSize, q)]
    /\ cmd' = [cmd EXCEPT ![t] = IF cmd[t].pc = "tail"
                                 THEN [@ EXCEPT !.pc = "returning"]
                                 ELSE NoCommand]
    /\ UNCHANGED <<guard, book_db_pools, current, next_pool, m_last, events,
                   poolvars, lockvars, qvars, storevars>>

\* the command returns and m is dropped
CmdReturn(t) ==
    /\ cmd[t].pc = "returning"
    /\ guard' = NoThread
    /\ cmd' = [cmd EXCEPT ![t] = NoCommand]
    /\ UNCHANGED <<poolvars, lockvars, mgrvars, qvars, storevars>>

CmdNext ==
    \/ \E t \in 1..MaxCommands, op \in BookCommands : CmdLock(t, op)
    \/ \E t \in 1..MaxCommands : CmdGetCurrentPool(t)
    \/ \E t \in 1..MaxCommands : CmdStatementEnds(t)
    \/ \E t \in 1..MaxCommands : CmdTailCallEnds(t)
    \/ \E t \in 1..MaxCommands : CmdTailDropsGuard(t)
    \/ \E t \in 1..MaxCommands : CmdTailDropsItem(t)
    \/ \E t \in 1..MaxCommands : CmdReturn(t)

SpecCommands == CommandsInit /\ [][CmdNext]_vars

\* ------------------------------------------------------------------ claims

\* C1: in every reachable state of a pool created with min_size = N, the free
\* list holds at least 0 and at most N items.
FreeListWithinMinSize ==
    /\ Len(free) >= 0
    /\ Len(free) <= min_size

\* C1 witness: a full free list of a pool in use, after a release that found
\* it full
FreeListFullAfterDiscard ==
    /\ phase = "ready"
    /\ min_size > 0
    /\ Len(free) = min_size
    /\ discarded # {}

\* number of places that hold item i: live PoolItems, positions of the free
\* list, and the items an over-capacity release dropped
Places(i) ==
    Cardinality({t \in DOMAIN pc : item[t] = i})
      + Occurrences(free, i)
      + (IF i \in discarded THEN 1 ELSE 0)

\* C2: every item the creator ever made is in exactly one place: held by one
\* live PoolItem, once in the free list, or discarded by an over-capacity
\* release; none is held twice, nor held while in the free list.
EveryItemInOnePlace ==
    phase = "ready" =>
        /\ \A i \in 1..created : Places(i) = 1
        /\ \A t \in DOMAIN pc : item[t] # None => item[t] \in 1..created
        /\ \A t \in DOMAIN pc : (item[t] # None) <=> (pc[t] \in HoldingPcs)

\* C2 witness: an overflow item exists, and at the same time one item is
\* held, one is in the free list and one has been discarded
ItemsInAllThreePlaces ==
    /\ phase = "ready"
    /\ created > min_size
    /\ Outstanding # {}
    /\ free # <<>>
    /\ discarded # {}

\* C3: whenever no PoolItem is outstanding, available_items() is exactly
\* min_size, however many handles were outstanding at the same time before.
AllDroppedLeavesMinSize ==
    (phase = "ready" /\ Outstanding = {}) => available_items(free) = min_size

\* C3 witness: nothing is outstanding after more than min_size handles were
\* alive at the same time
AllDroppedAfterOverflow ==
    /\ phase = "ready"
    /\ min_size > 0
    /\ Outstanding = {}
    /\ Creating = {}
    /\ peak > min_size
    /\ available_items(free) = min_size

\* C4: in a fresh pool, once M >= min_size calls of get_pool_item have
\* returned and no handle has been dropped, available_items() is 0.
AllAcquiredLeavesNone ==
    (phase = "ready" /\ ~dropped_any /\ Cardinality(Outstanding) >= min_size)
        => available_items(free) = 0

\* C4 witness: more handles than min_size are held, none was dropped yet
MoreHeldThanMinSize ==
    /\ phase = "ready"
    /\ min_size > 0
    /\ ~dropped_any
    /\ Cardinality(Outstanding) > min_size
    /\ available_items(free) = 0

\* C5: in pool_test a thread with spawn index 0 to 3 observes
\* available_items() > 0 right after its get_pool_item, and a thread with
\* spawn index 4 or more observes available_items() = 0.
PoolTestObservations ==
    \A t \in DOMAIN obs :
        obs[t] # NoObs =>
            /\ (t \in 0..3 => obs[t] > 0)
            /\ (t >= 4 => obs[t] = 0)

\* C6: each PoolItem hands its item to relase exactly once, at its scope
\* exit, on every exit path (normal return, early return with an error,
\* panic unwinding): never zero times, never twice.
ReleasedExactlyOnce ==
    \A t \in DOMAIN pc :
        /\ released[t] <= 1
        /\ pc[t] \in HoldingPcs => (released[t] = 0 /\ item[t] # None)
        /\ pc[t] \in ExitedPcs => (released[t] = 1 /\ item[t] = None)

\* C6 witness: handles have left their scope on all three paths
ExitedOnEveryPath ==
    \E t1, t2, t3 \in DOMAIN pc :
        /\ pc[t1] = "done" /\ released[t1] = 1
        /\ pc[t2] = "done_err" /\ released[t2] = 1
        /\ pc[t3] = "dead" /\ released[t3] = 1

\* C7: get_pool_item never waits for a release: with a non-empty free list
\* exactly one item leaves it and the creator is not invoked; with an empty
\* one the creator is invoked exactly once and the free list stays empty; in
\* both cases the call returns a PoolItem that holds an item.
GetPoolItemPopsOrCreates ==
    [][\A t \in DOMAIN pc :
        /\ (pc[t] = "idle" /\ pc'[t] # "idle") =>
              IF free # <<>>
              THEN /\ free' = SubSeq(free, 1, Len(free) - 1)
                   /\ created' = created
                   /\ pc'[t] = "holding"
                   /\ item'[t] = free[Len(free)]
              ELSE /\ free' = <<>>
                   /\ created' = created
                   /\ pc'[t] = "creating"
        /\ (pc[t] = "creating" /\ pc'[t] # "creating") =>
              /\ free' = free
              /\ created' = created + 1
              /\ pc'[t] = "holding"
              /\ item'[t] # None]_vars

\* C8: when a PoolItem is dropped its item is appended to the free list if
\* and only if the free list holds fewer than min_size items at that moment;
\* otherwise the free list is unchanged and the item is discarded.
DropPushesIffBelowMinSize ==
    [][\A t \in DOMAIN pc :
        (item[t] # None /\ item'[t] = None) =>
            IF Len(free) < min_size
            THEN free' = Append(free, item[t]) /\ discarded' = discarded
            ELSE free' = free /\ discarded' = discarded \cup {item[t]}]_vars

\* C8 witness: releases of both kinds have happened: an item that was
\* pushed back is in the free list, another one was discarded
PushedAndDiscarded ==
    /\ dropped_any
    /\ discarded # {}
    /\ \E k \in 1..Len(free) : free[k] > min_size

\* C9: PoolManager::new(N, creator) invokes the creator exactly N times before
\* it returns, and the free list of the new pool holds exactly those N items.
NewSeedsMinSizeItems ==
    [][(phase = "new" /\ phase' = "ready") =>
        /\ created' = min_size
        /\ free' = [k \in 1..min_size |-> k]
        /\ available_items(free') = min_size]_vars

\* C9 witness: a pool right after its construction, nothing acquired yet
FreshPool ==
    /\ phase = "ready"
    /\ min_size = MaxMinSize
    /\ created = min_size
    /\ peak = 0
    /\ Creating = {}
    /\ available_items(free) = min_size

\* C10: once a pool has been constructed, get_pool_item never panics, even
\* when it must create an overflow item and the backend can no longer be
\* opened.
GetPoolItemNeverPanics ==
    \A t \in DOMAIN pc : pc[t] # "acquire_panicked"

\* C11: if the creator fails on one of the eager creations of pool
\* construction (new_sqlite_pool, PoolManager::new), construction returns an
\* error value to the caller: it does not panic, and no pool is produced.
ConstructionFailureIsAnError ==
    phase # "new_panicked"

\* C12: after a thread panicked while it held the free-list mutex, every
\* later get_pool_item, PoolItem drop and available_items call completes on
\* the last state of the free list instead of panicking.
PoisonedPoolKeepsWorking ==
    \A t \in DOMAIN pc : pc[t] # "lock_panicked"

\* C13: the free-list mutex is held only during the pop of an acquire, the
\* check-and-push of a release and the length read of available_items; it is
\* never held while create_item runs (at construction or for an overflow
\* item) nor while a caller uses a checked-out item.
LockHeldOnlyInCriticalSections ==
    /\ lock # NoThread => pc[lock] \in LockedPcs
    /\ \A t \in DOMAIN pc : pc[t] \notin LockedPcs => lock # t
    /\ phase = "new" => lock = NoThread

\* C13 witness: one thread is inside a critical section while another one
\* runs the creator for an overflow item and a third one uses its item
LockedBesideCreatorAndUser ==
    \E t1, t2, t3 \in DOMAIN pc :
        /\ lock = t1 /\ pc[t1] \in LockedPcs
        /\ pc[t2] = "creating"
        /\ pc[t3] = "holding"

\* C14: remove_pool(name) unsets current if and only if current was name:
\* removing a registered pool other than the current one leaves current
\* unchanged, and removing an unregistered name returns None and changes
\* neither the registered pools nor current.
RemovePoolUnsetsOnlyItsOwnName ==
    [][(m_last'.tick # m_last.tick /\ m_last'.op = "remove_pool") =>
        LET n == m_last'.name IN
          IF n \in DOMAIN book_db_pools
          THEN /\ m_last'.result = "Some"
               /\ book_db_pools' = MapRemove(book_db_pools, n)
               /\ current' = IF current = n THEN NoName ELSE current
          ELSE /\ m_last'.result = "None"
               /\ UNCHANGED <<book_db_pools, current>>]_vars

\* C15: add_pool(name, pool) returns PoolAlreadyAdded when name is registered
\* and then changes neither the registered pools nor current; otherwise it
\* stores the pool under name, returns Ok and does not change current.
AddPoolKeepsRegisteredPool ==
    [][(m_last'.tick # m_last.tick /\ m_last'.op = "add_pool") =>
        LET n == m_last'.name IN
          IF n \in DOMAIN book_db_pools
          THEN /\ m_last'.result = "PoolAlreadyAdded"
               /\ UNCHANGED <<book_db_pools, current>>
          ELSE /\ m_last'.result = "Ok"
               /\ book_db_pools' = MapInsert(book_db_pools, n, m_last'.pool)
               /\ UNCHANGED current]_vars

\* C15 witness: add_pool has just refused a second pool for the name that is
\* current; the pool stored before is still the one registered
AddPoolRefusedSecondPool ==
    /\ m_last.op = "add_pool"
    /\ m_last.result = "PoolAlreadyAdded"
    /\ current = m_last.name
    /\ m_last.name \in DOMAIN book_db_pools
    /\ book_db_pools[m_last.name] # m_last.pool

\* C16: set_current_pool(name) returns PoolNotFound when name is not
\* registered and then leaves current unchanged; when name is registered it
\* sets current to name and returns Ok.
SetCurrentPoolChecksName ==
    [][(m_last'.tick # m_last.tick /\ m_last'.op = "set_current_pool") =>
        LET n == m_last'.name IN
          /\ UNCHANGED book_db_pools
          /\ IF n \in DOMAIN book_db_pools
             THEN m_last'.result = "Ok" /\ current' = n
             ELSE m_last'.result = "PoolNotFound" /\ current' = current]_vars

\* C16 witness: set_current_pool has just refused an unregistered name while
\* another pool is current
SetCurrentPoolRefusedUnknown ==
    /\ m_last.op = "set_current_pool"
    /\ m_last.result = "PoolNotFound"
    /\ current # NoName
    /\ current # m_last.name
    /\ current \in DOMAIN book_db_pools

\* C17: get_current_pool returns CurrentPoolNotSet exactly when no current
\* pool is set; otherwise it returns a handle acquired from the pool that is
\* registered under the current name; it changes neither the registered
\* pools nor current.
GetCurrentPoolReturnsHandle ==
    [][(m_last'.tick # m_last.tick /\ m_last'.op = "get_current_pool") =>
        /\ UNCHANGED <<book_db_pools, current>>
        /\ (m_last'.result = "CurrentPoolNotSet") <=> (current = NoName)
        /\ current # NoName =>
              /\ m_last'.result = "PoolItem"
              /\ m_last'.pool = book_db_pools[current]
              /\ handles' = [handles EXCEPT ![m_last'.pool] = @ + 1]]_vars

\* C18: when take = t and skip_page = s with s > 0, the fetch query skips the
\* first t * s matching rows and returns rows from there on.
SkipPageSkipsTakeTimesSkip ==
    (/\ q_last.op # "none" /\ q_last.ok
     /\ IsSome(q_last.search.take) /\ IsSome(q_last.search.skip)
     /\ q_last.search.skip[1] > 0)
    => LET t == q_last.search.take[1]
           s == q_last.search.skip[1]
       IN  IsPrefix(q_last.result.items,
                    SubSeq(LastMatching, t * s + 1, Len(LastMatching)))

\* C19: a search result of a request with take = t holds at most t items,
\* for every value of skip_page.
ItemsAtMostTake ==
    (q_last.op # "none" /\ q_last.ok /\ IsSome(q_last.search.take))
    => Len(q_last.result.items) <= q_last.search.take[1]

\* C20: for every search result, skipped + items.len() <= total.
SkippedPlusItemsWithinTotal ==
    (q_last.op # "none" /\ q_last.ok)
    => q_last.result.skipped + Len(q_last.result.items) <= q_last.result.total

\* the operations of SqliteStore that fetch through a QueryBuilder
FetchOps == {"fetch_books", "get_tags", "get_authors"}

\* C21: the skipped field of a search result equals the number of matching
\* rows actually skipped before the first returned item.
SkippedIsRowsSkipped ==
    (q_last.op \in FetchOps /\ q_last.ok /\ q_last.result.items # <<>>)
    => /\ q_last.result.skipped + 1 <= Len(LastMatching)
       /\ LastMatching[q_last.result.skipped + 1] = q_last.result.items[1]

\* C22: the skipped field of a search result is non-zero only if the request
\* has take set and a skip_page greater than 0; it is 0 when take is absent,
\* when skip_page is absent and when skip_page is 0.
SkippedOnlyWhenPaged ==
    (q_last.op \in FetchOps /\ q_last.ok)
    => /\ q_last.result.skipped # 0 =>
            /\ IsSome(q_last.search.take)
            /\ IsSome(q_last.search.skip)
            /\ q_last.search.skip[1] > 0
       /\ ~IsSome(q_last.search.take) => q_last.result.skipped = 0
       /\ ~IsSome(q_last.search.skip) => q_last.result.skipped = 0
       /\ q_last.search.skip = Some(0) => q_last.result.skipped = 0

\* C22 witness: a result with skipped = 0 for a request that has a positive
\* skip_page and no take, fetched from a table that has rows
SkipPageWithoutTake ==
    /\ q_last.op = "get_tags" /\ q_last.ok
    /\ ~IsSome(q_last.search.take)
    /\ q_last.search.skip = Some(MaxSkip)
    /\ q_last.result.skipped = 0
    /\ Len(q_last.rows) = MaxRows

\* C23: for a fixed dataset and filter text, total is the same for all
\* requests that differ only in take and skip_page: it is the number of rows
\* the text selects, and the count query has neither ORDER BY nor LIMIT.
TotalIndependentOfPaging ==
    (q_last.op \in FetchOps /\ q_last.ok)
    => /\ q_last.result.total = Len(LastMatching)
       /\ q_last.count.sort_limit = NoSortLimit

\* C23 witness: a filtered, paged result that holds fewer items than its
\* total
PagedResultBelowTotal ==
    /\ q_last.op = "get_tags" /\ q_last.ok
    /\ q_last.search.text = "a"
    /\ q_last.search.take = Some(1)
    /\ q_last.search.skip = Some(1)
    /\ q_last.result.total = MaxRows
    /\ Len(q_last.result.items) = 1

\* C24: for fetch_books, get_tags and get_authors a request whose text is
\* empty runs the count query and the fetch query with no WHERE clause and
\* no bound filter parameters, and total is the row count of the table.
EmptyTextRunsUnfiltered ==
    (q_last.op \in FetchOps /\ q_last.search.text = "")
    => /\ q_last.count.placeholders = 0 /\ q_last.count.bound = <<>>
       /\ q_last.query.placeholders = 0 /\ q_last.query.bound = <<>>
       /\ q_last.ok
       /\ q_last.result.total = Len(q_last.rows)

\* C24 witness: get_authors with an empty text on a full table
EmptyTextOnFullTable ==
    /\ q_last.op = "get_authors" /\ q_last.ok
    /\ q_last.search.text = ""
    /\ Len(q_last.rows) = MaxRows
    /\ q_last.result.total = MaxRows

\* C25: on one QueryBuilder, calling both use_where_clause and use_params,
\* in either order and for every text, makes the second call return an
\* error, and no builder on which both were called is executed.
SecondOfBothCallsFails ==
    (/\ Len(qb.calls) >= 2
     /\ qb.calls[1].call # qb.calls[2].call)
    => ~qb.calls[2].ok /\ ~qb.fetched

\* C26: in one fetch the count query and the fetch query are bound to the
\* same parameters in the same order, and each receives exactly one
\* parameter per '?' placeholder.
QueriesBoundAlike ==
    q_last.op \in FetchOps
    => /\ q_last.count.bound = q_last.query.bound
       /\ Len(q_last.count.bound) = q_last.count.placeholders
       /\ Len(q_last.query.bound) = q_last.query.placeholders

\* the ORDER BY clause a wanted sort asks for, piece by piece: "ORDER BY", then for
\* the k-th descriptor a blank, its column and its direction, a comma
\* between two descriptors and a blank at the end
ExpectedOrderBy(wanted) ==
    IF ~IsSome(wanted) \/ wanted = Some(<<>>) THEN <<>>
    ELSE LET n == Len(wanted[1])
         IN  [i \in 1..(4 * n + 1) |->
                IF i = 1 THEN "ORDER BY"
                ELSE LET k == (i + 2) \div 4
                         d == wanted[1][k]
                     IN  CASE i % 4 = 2 -> " "
                           [] i % 4 = 3 -> d[1]
                           [] i % 4 = 0 -> (IF d[2] = "Desc" THEN " DESC"
                                            ELSE " ASC")
                           [] i % 4 = 1 -> (IF k = n THEN " " ELSE ",")]

\* C27: the ORDER BY clause of the fetch query lists exactly the request's
\* sort descriptors in the caller's order, each as '<column> ASC' or
\* '<column> DESC', separated by commas with no trailing comma; when sort is
\* absent or empty no ORDER BY text is emitted.
OrderByListsDescriptors ==
    qb.stage = "built"
    => qb.b.sort_limit.order_by = ExpectedOrderBy(qb.config.sort)

\* C27 witness: a builder for a sort of two descriptors of different
\* directions
BuiltWithTwoDescriptors ==
    /\ qb.stage = "built"
    /\ IsSome(qb.config.sort)
    /\ Len(qb.config.sort[1]) = 2
    /\ qb.config.sort[1][1][2] = "Desc"
    /\ qb.config.sort[1][2][2] = "Asc"
    /\ qb.config.sort[1][1][1] # qb.config.sort[1][2][1]

\* C28: when take is absent the fetch query has no LIMIT clause, skip_page
\* is ignored, no error is raised, and the result has skipped = 0 and
\* contains every matching row.
TakeAbsentFetchesAll ==
    (q_last.op \in FetchOps /\ ~IsSome(q_last.search.take))
    => /\ q_last.query.sort_limit.limit = <<>>
       /\ q_last.ok
       /\ q_last.result.skipped = 0
       /\ q_last.result.items = LastMatching

\* the column names spliced into an ORDER BY clause
OrderByColumns(clause) ==
    {clause[i] : i \in {j \in DOMAIN clause : j % 4 = 3}}

\* C29: every column token in the ORDER BY clause of a generated query
\* belongs to the allow-list of known columns.
OrderByColumnsAreKnown ==
    qb.stage = "built"
    => OrderByColumns(qb.b.sort_limit.order_by) \subseteq KnownColumns

\* C30: update_book with a book whose authors list is empty returns
\* EmptyAuthors and commits no part of the update: the stored row, authors
\* and tags are as before the call, although the row update and the tag
\* replacement were executed inside the transaction.
EmptyAuthorsCommitsNothing ==
    [][(call'.op = "update_book" /\ call'.book.authors = <<>>) =>
        /\ store' = store
        /\ call'.pc = "authors" =>
              /\ tx'[1][call'.book.id].title = call'.book.title
              /\ tx'[1][call'.book.id].tags =
                    (IF IsSome(call'.book.tags) THEN call'.book.tags[1]
                     ELSE <<>>)
        /\ call'.pc = "done" =>
              /\ call'.result = "EmptyAuthors"
              /\ tx' = Nothing]_vars

\* C30 witness: update_book has returned EmptyAuthors for a book whose title
\* and tags differ from the stored ones
EmptyAuthorsAfterWrites ==
    /\ call.op = "update_book" /\ call.pc = "done"
    /\ call.result = "EmptyAuthors"
    /\ call.book.authors = <<>>
    /\ store[call.book.id].title # call.book.title
    /\ store[call.book.id].tags # <<>>
    /\ call.book.tags = Nothing
    /\ store[call.book.id].authors # <<>>

\* C31: add_book with a book whose authors list is empty is rejected with
\* a validation error and stores nothing: the committed rows are the ones
\* before the call.
AddBookRejectsEmptyAuthors ==
    [][(/\ call'.op = "add_book"
        /\ call'.book.id \notin DOMAIN store
        /\ call'.book.authors = <<>>) =>
            /\ call'.result = "EmptyAuthors"
            /\ store' = store]_vars

\* C32: after every successful add_book or update_book the rows of authors
\* and the rows of tags persisted for the book are sorted ascending and hold
\* no name twice.
PersistedListsNormalised ==
    (/\ call.op \in {"add_book", "update_book"}
     /\ call.pc = "done" /\ call.result = "Ok") =>
        /\ store[call.book.id].authors = dedup(sort(store[call.book.id].authors))
        /\ store[call.book.id].tags = dedup(sort(store[call.book.id].tags))

\* C33: after add_book(b) has succeeded b.id is the id of the new row, and
\* get_book(b.id) returns a book equal to b as add_book left it.
AddBookRoundTrip ==
    (call.op = "add_book" /\ call.result = "Ok") =>
        /\ call.book.id \in DOMAIN store
        /\ get_book(store, call.book.id).result = "Ok"
        /\ get_book(store, call.book.id).book = call.book

\* C34: get_book(id) returns NotFound exactly when no book with that id is
\* stored, and otherwise Ok; an id removed by delete_book_by_id and not
\* assigned to a new book since is answered with NotFound.
GetBookNotFoundIffAbsent ==
    call.op = "get_book" =>
        /\ call.result \in {"Ok", "NotFound"}
        /\ call.result = "NotFound" <=> call.book.id \notin DOMAIN store
        /\ call.book.id \in deleted => call.result = "NotFound"

\* C34 witness: get_book has answered NotFound for an id that
\* delete_book_by_id removed
GetBookAfterDelete ==
    /\ call.op = "get_book" /\ call.result = "NotFound"
    /\ call.book.id \in deleted
    /\ call.book.id \in 1..MaxBooks

\* C35: on a table of exactly 3 books, fetch_books with empty text and no
\* take returns total 3, skipped 0 and the 3 books; with empty text, take 2
\* and skip_page 1 it returns total 3, skipped 1 and exactly one item, the
\* book that remains after the first page of two.
ThreeBooksPaging ==
    (/\ q_last.op = "fetch_books"
     /\ Len(q_last.rows) = 3
     /\ q_last.search.text = "") =>
        /\ q_last.search.take = Nothing =>
              /\ q_last.ok
              /\ q_last.result.total = 3
              /\ q_last.result.skipped = 0
              /\ q_last.result.items = q_last.rows
        /\ (q_last.search.take = Some(2) /\ q_last.search.skip = Some(1)) =>
              /\ q_last.ok
              /\ q_last.result.total = 3
              /\ q_last.result.skipped = 1
              /\ q_last.result.items = <<q_last.rows[3]>>

\* C35 witness: the second page of two has been fetched from 3 books
ThreeBooksSecondPage ==
    /\ q_last.op = "fetch_books" /\ q_last.ok
    /\ Len(q_last.rows) = 3
    /\ q_last.search.text = ""
    /\ q_last.search.take = Some(2) /\ q_last.search.skip = Some(1)
    /\ Len(q_last.result.items) = 1

\* C36: current is unset or names a registered pool, and get_current_pool
\* never returns PoolNotFound.
CurrentIsRegistered ==
    /\ current = NoName \/ current \in DOMAIN book_db_pools
    /\ m_last.op = "get_current_pool" => m_last.result # "PoolNotFound"

\* C36 witness: a pool has been removed while another one is still
\* registered, and get_current_pool then finds no current pool
NoCurrentAfterRemove ==
    /\ m_last.op = "get_current_pool"
    /\ m_last.result = "CurrentPoolNotSet"
    /\ DOMAIN book_db_pools # {}
    /\ next_pool > Cardinality(DOMAIN book_db_pools)

\* C40: close_db with the current pool as the only registered pool removes
\* it, returns PoolNotFound, leaves no pool and no current selection and
\* emits no event; with other pools registered it removes the current pool,
\* makes one of the others current and emits CurrentDBChanged for it and
\* OpenDBChanged with the remaining names.
CloseDbOutcome ==
    [][(/\ m_last'.op = "close_db" /\ m_last'.tick # m_last.tick
        /\ current # NoName) =>
          /\ book_db_pools' = MapRemove(book_db_pools, current)
          /\ IF DOMAIN book_db_pools = {current}
             THEN /\ m_last'.result = "PoolNotFound"
                  /\ DOMAIN book_db_pools' = {}
                  /\ current' = NoName
                  /\ events' = <<>>
             ELSE /\ m_last'.result = "Ok"
                  /\ current' \in DOMAIN book_db_pools'
                  /\ events' =
                        <<[event |-> "CurrentDBChanged", db |-> current'],
                          [event |-> "OpenDBChanged",
                           dbs |-> DOMAIN book_db_pools']>>]_vars

\* C40 witness: close_db has closed the only registered pool
ClosedTheOnlyPool ==
    /\ m_last.op = "close_db" /\ m_last.name \in PoolNames
    /\ m_last.result = "PoolNotFound"
    /\ DOMAIN book_db_pools = {}
    /\ current = NoName
    /\ events = <<>>

\* C38: once a pool with min_size N is constructed, the items in its free
\* list plus the items held by live PoolItems are at least N in every state.
PoolKeepsRestingCapacity ==
    phase = "ready" => Len(free) + Cardinality(Outstanding) >= min_size

\* C38 witness: a relase has discarded an item of a full free list while
\* other PoolItems are alive and the free list is not full any more
DiscardedWhileLeased ==
    /\ phase = "ready" /\ min_size > 0
    /\ discarded # {}
    /\ Outstanding # {}
    /\ Len(free) < min_size

\* C39: after any sequence of use_where_clause and use_params calls filter
\* is set exactly when search_params is set, filter and params are never
\* both set, and as long as every where-clause function returned an empty
\* fragment the builder has no filter and no filter parameters.
FilterAndParamsExclusive ==
    qb.stage = "built" =>
        /\ IsSome(qb.b.filter) <=> IsSome(qb.b.search_params)
        /\ ~(IsSome(qb.b.filter) /\ IsSome(qb.b.params))
        /\ (\A i \in 1..Len(qb.calls) :
                qb.calls[i].call = "use_where_clause" => qb.calls[i].empty)
           => qb.b.filter = Nothing /\ qb.b.search_params = Nothing

\* C39 witness: on a builder with a non-empty text a where-clause function
\* returned an empty fragment and use_params was accepted after it
EmptyFragmentThenParams ==
    /\ qb.stage = "built" /\ qb.b.text # ""
    /\ Len(qb.calls) = 2
    /\ qb.calls[1].call = "use_where_clause" /\ qb.calls[1].empty
    /\ qb.calls[1].ok
    /\ qb.calls[2].call = "use_params" /\ qb.calls[2].ok
    /\ IsSome(qb.b.params) /\ qb.b.filter = Nothing

\* C37: a book command holds the guard of BookManagerState for as long as
\* its PoolItem is alive; hence at most one PoolItem is outstanding, no
\* overflow item is ever created and the free list of a pool never holds
\* fewer than min_size - 1 items.
CommandsSerialiseHandles ==
    /\ \A t \in 1..MaxCommands :
           cmd[t].pc \in {"operating", "tail", "tail_unguarded"} => guard = t
    /\ TotalHandles <= 1
    /\ \A q \in DOMAIN handles :
           /\ handles[q] + Len(pool_free[q]) <= SqlitePoolSize
           /\ Len(pool_free[q]) >= SqlitePoolSize - 1

====
